---- MODULE Spec2Model ----
(***************************************************************************)
(* Office-to-Google compatibility checker (backend/app.py).                *)
(*                                                                         *)
(* One HTTP handler, check_compatibility_route, dispatches an uploaded     *)
(* document to one of three scanners by the declared file type.  Each      *)
(* scanner decodes the upload, walks the parsed object model collecting    *)
(* issues, builds an annotated copy and returns (success, output, issues). *)
(*                                                                         *)
(* The codec libraries (python-docx, python-pptx, openpyxl) are outside    *)
(* the repository.  Their object model is taken as the code reads it: a    *)
(* document is a record of exactly the attributes the scanners access, and *)
(* a library call fails where the input makes it fail (bytes that are not  *)
(* a package of the format, a shape whose copy raises, a layout that       *)
(* cannot be assigned).                                                    *)
(***************************************************************************)
EXTENDS Integers, Sequences, FiniteSets, TLC

VARIABLES
    request,    \* the call being served: route and JSON payload
    pc,         \* "received" (handler not yet run) or "responded"
    invoked,    \* names of the scanner functions the handler called, in order
    result,     \* the (success, output, issues) tuple the scanner returned
    response,   \* the JSON body and status code sent back
    first       \* what the previous, byte-identical request produced

vars == <<request, pc, invoked, result, response, first>>

---------------------------------------------------------------------------
(* Bounds of the model *)

MaxBlocks == 2      \* Word: body blocks (paragraphs, tables) per document
MaxParaRuns == 2    \* Word: runs per paragraph, where comment references interact
MaxShapes == 2      \* PowerPoint: shapes on the slide of a one-slide presentation
MaxSlides == 2      \* PowerPoint: slides per presentation, where slides interact
MaxSheets == 1      \* Excel: sheets per workbook
MaxFeatureSheets == 2   \* Excel: sheets per workbook, where sheets interact
MaxRows == 2        \* Excel: rows of a sheet, where the row offset is studied
MaxCols == 2        \* Excel: columns of a sheet, where the row offset is studied
NumHashSeeds == 2   \* iteration orders of a Python set that are explored

---------------------------------------------------------------------------
(* Helpers *)

SeqsUpTo(S, n) == UNION {[1..k -> S] : k \in 0..n}

Range(s) == {s[i] : i \in 1..Len(s)}

RECURSIVE SubsetsUpTo(_, _)
SubsetsUpTo(S, n) ==
    IF n = 0 THEN {{}}
    ELSE {{}} \cup {{x} \cup T : x \in S, T \in SubsetsUpTo(S, n - 1)}

NoDuplicates(s) == \A i, j \in 1..Len(s) : s[i] = s[j] => i = j

Min(a, b) == IF a <= b THEN a ELSE b

RECURSIVE Concat(_)
Concat(ss) == IF ss = <<>> THEN <<>> ELSE Head(ss) \o Concat(Tail(ss))

(* An issue string.  `text` is the literal part of the message, `slide` the
   interpolated slide number (0 when the message has none) and `cause` the
   interpolated exception text ("" when the message has none).  Two issue
   strings are equal exactly when the three parts are. *)
Issue(text, slide, cause) == [text |-> text, slide |-> slide, cause |-> cause]

Msg(text) == Issue(text, 0, "")

(* base64: the transport encoding of a package.  A payload is absent from the
   JSON object, the empty string, text that does not decode, or the encoding
   of some bytes. *)
NoBytes == [fmt |-> "none"]

AbsentPayload == [enc |-> "absent", bytes |-> NoBytes]
EmptyPayload == [enc |-> "empty", bytes |-> NoBytes]
MalformedPayload == [enc |-> "malformed", bytes |-> NoBytes]

b64encode(bytes) == [enc |-> "base64", bytes |-> bytes]

b64decodeRaises(s) == s.enc \notin {"base64", "empty"}

b64decode(s) == s.bytes

(* Python truthiness of the file_base64 value *)
Truthy(s) == s.enc \notin {"absent", "empty"}

(* list(set(xs)): the distinct elements of xs in the iteration order of a
   Python set, which depends on the process's string-hash seed.  The model
   explores NumHashSeeds orders: rotations of one base order, and the
   reverses of those. *)
IssueTexts ==
    << "VBA Macros", "Comments", "Tracked Changes/Revisions",
       "Contains an embedded picture", "Contains complex graphics or non-standard shapes",
       "Could not fully copy a shape due to an internal error", "Contains speaker notes",
       "Charts/Complex Graphics", "Embedded Images/Shapes", "Conditional Formatting",
       "Data Validation", "Formulas", "Merged Cells" >>

Causes == << "", "shape type not implemented", "text frame unreadable" >>

CauseRank(c) == CHOOSE i \in 1..Len(Causes) : Causes[i] = c

TextRank(t) == CHOOSE i \in 1..Len(IssueTexts) : IssueTexts[i] = t

Before(a, b) ==
    \/ a.slide < b.slide
    \/ a.slide = b.slide /\ TextRank(a.text) < TextRank(b.text)
    \/ a.slide = b.slide /\ a.text = b.text /\ CauseRank(a.cause) < CauseRank(b.cause)

RECURSIVE Sorted(_)
Sorted(S) ==
    IF S = {} THEN <<>>
    ELSE LET m == CHOOSE x \in S : \A y \in S \ {x} : Before(x, y)
         IN <<m>> \o Sorted(S \ {m})

Rotate(s, k) ==
    IF s = <<>> THEN s
    ELSE [i \in 1..Len(s) |-> s[((i - 1 + k) % Len(s)) + 1]]

Reverse(s) == [i \in 1..Len(s) |-> s[Len(s) + 1 - i]]

(* a deduplication that loses an element under some hash orders *)
ListOfSetLossy(xs, seed) ==
    LET base == Rotate(Sorted(Range(xs)), seed \div 2)
    IN IF seed % 2 = 0 \/ base = <<>> THEN base ELSE Tail(Reverse(base))

HashSeeds == 0..(NumHashSeeds - 1)

ListOfSet(xs, seed) ==
    LET base == Rotate(Sorted(Range(xs)), seed \div 2)
    IN IF seed % 2 = 0 THEN base ELSE Reverse(base)

---------------------------------------------------------------------------
(* Word documents as python-docx exposes them to the scanner *)

CommentIds == {1}

(* A run: the comment id its XML references (0: none) and whether its XML
   carries revision markup (w:ins, w:del, w:rPrChange). *)
Runs == [ref : {0} \cup CommentIds, rev : BOOLEAN]

ParagraphBlocks(maxRuns) == [type : {"p"}, runs : SeqsUpTo(Runs, maxRuns)]

TableBlocks == {[type |-> "t", runs |-> <<>>]}

(* doc.comments in part order: a sequence of distinct comment ids *)
CommentLists == {s \in SeqsUpTo(CommentIds, Cardinality(CommentIds)) : NoDuplicates(s)}

WordDocs(maxBlocks, maxRuns) ==
    [has_macros : BOOLEAN,
     comments : CommentLists,
     blocks : SeqsUpTo(ParagraphBlocks(maxRuns) \cup TableBlocks, maxBlocks)]

WordPackage(doc) == [fmt |-> "docx", doc |-> doc]

(* doc.paragraphs: the top-level paragraphs, in order *)
paragraphs(doc) == SelectSeq(doc.blocks, LAMBDA b : b.type = "p")

(* lines 60-68: some run of some top-level paragraph carries revision markup *)
has_revisions(doc) ==
    \E i \in 1..Len(paragraphs(doc)) :
        \E j \in 1..Len(paragraphs(doc)[i].runs) : paragraphs(doc)[i].runs[j].rev

(* lines 46-71: the issue list, appended in this order *)
WordIssues(doc) ==
    (IF doc.has_macros THEN <<Msg("VBA Macros")>> ELSE <<>>)
    \o (IF doc.comments # <<>> THEN <<Msg("Comments")>> ELSE <<>>)
    \o (IF has_revisions(doc) THEN <<Msg("Tracked Changes/Revisions")>> ELSE <<>>)

(* lines 121-132 for one run: the first comment id, in doc.comments order,
   that the run's XML references; 0 when it references no known comment *)
MatchedComment(doc, run) ==
    IF \E k \in 1..Len(doc.comments) : doc.comments[k] = run.ref
    THEN doc.comments[CHOOSE k \in 1..Len(doc.comments) :
                          /\ doc.comments[k] = run.ref
                          /\ \A m \in 1..(k - 1) : doc.comments[m] # run.ref]
    ELSE 0

(* a comment re-created for every run that references a known comment *)
CopyParagraphEveryRun(doc, p) ==
    LET hits == SelectSeq(p.runs, LAMBDA r : MatchedComment(doc, r) # 0)
    IN [type |-> "p",
        runs |-> Len(p.runs) + Len(hits),
        shd |-> Len(hits),
        comments |-> [k \in 1..Len(hits) |-> MatchedComment(doc, hits[k])]]

(* lines 94-132: the copy of one paragraph.  shd counts the background
   elements appended (one per run that references a known comment); comments
   lists the re-created comments (added only while the paragraph carries no
   _comment_added_by_checker mark). *)
CopyParagraph(doc, p) ==
    LET hits == SelectSeq(p.runs, LAMBDA r : MatchedComment(doc, r) # 0)
    IN [type |-> "p",
        runs |-> Len(p.runs) + (IF hits = <<>> THEN 0 ELSE 1),
        shd |-> Len(hits),
        comments |-> IF hits = <<>> THEN <<>> ELSE <<MatchedComment(doc, hits[1])>>]

(* lines 134-170: a table is copied between a blank paragraph and a note *)
CopyTable(t) ==
    << [type |-> "blank", runs |-> 0, shd |-> 0, comments |-> <<>>],
       [type |-> "t", runs |-> 0, shd |-> 0, comments |-> <<>>],
       [type |-> "note", runs |-> 0, shd |-> 0, comments |-> <<>>] >>

(* line 93: isinstance(block, type(doc.paragraphs[0])) indexes the list of
   top-level paragraphs for every block walked; it raises IndexError when the
   body has a block and no top-level paragraph *)
WalkRaises(doc) == doc.blocks # <<>> /\ paragraphs(doc) = <<>>

(* lines 37-89 and 91-170: the report document *)
WordReport(doc, original_filename) ==
    [filename |-> original_filename,
     summary |-> WordIssues(doc),
     placeholder |-> (WordIssues(doc) = <<>>),
     body |-> Concat([i \in 1..Len(doc.blocks) |->
                 IF doc.blocks[i].type = "p"
                 THEN <<CopyParagraph(doc, doc.blocks[i])>>
                 ELSE CopyTable(doc.blocks[i])])]

NoOutput == [enc |-> "empty", bytes |-> NoBytes]

ScanOk(fmt, new_doc, issues_found) ==
    [ok |-> TRUE, out |-> b64encode([fmt |-> fmt, doc |-> new_doc]), issues |-> issues_found]

(* an except clause that hands back what was built before the exception *)
ScanFailedPartial(text, cause) ==
    [ok |-> FALSE, out |-> b64encode([fmt |-> "partial"]), issues |-> <<Issue(text, 0, cause)>>]

(* the except clause of each scanner: (False, "", [one message]) *)
ScanFailed(text, cause) ==
    [ok |-> FALSE, out |-> NoOutput, issues |-> <<Issue(text, 0, cause)>>]

WordError == "An unexpected error occurred during Word processing"

check_word_google_docs_compatibility(input_file_base64, original_filename) ==
    IF b64decodeRaises(input_file_base64)
    THEN ScanFailed(WordError, "base64")
    ELSE LET decoded_bytes == b64decode(input_file_base64) IN
         IF decoded_bytes.fmt # "docx"
         THEN ScanFailed(WordError, "not a Word package")
         ELSE LET doc == decoded_bytes.doc IN
              IF WalkRaises(doc)
              THEN ScanFailed(WordError, "list index out of range")
              ELSE ScanOk("docx", WordReport(doc, original_filename), WordIssues(doc))

---------------------------------------------------------------------------
(* Presentations as python-pptx exposes them to the scanner *)

NotesExcerptLen == 100

(* A shape: what it is, and whether copying it raises.  A text shape that
   raises does so while its paragraphs are copied, after the new textbox was
   added; any other shape that raises does so when its shape_type is read. *)
Shapes(kinds, raising) == [kind : kinds, raises : raising]

(* Speaker notes: whether the slide has a notes slide, and the length of the
   notes text once stripped of surrounding whitespace. *)
Notes(lengths) == {[has |-> FALSE, stripped |-> 0]} \cup [has : {TRUE}, stripped : lengths]

(* layout: "match" when the output template has a layout of the same name,
   "nomatch" when it has none, "raises" when reading or assigning it raises *)
Slides(layouts, shapes, maxShapes, notes) ==
    [layout : layouts, shapes : SeqsUpTo(shapes, maxShapes), notes : notes]

Presentations(slides, maxSlides, macros, comments) ==
    [has_macros : macros, has_comments : comments, slides : SeqsUpTo(slides, maxSlides)]

PptxPackage(prs) == [fmt |-> "pptx", doc |-> prs]

(* lines 258-285 for one shape: the issues it appends *)
ShapeIssues(shape, slide_idx) ==
    IF shape.raises
    THEN <<Issue("Could not fully copy a shape due to an internal error", slide_idx + 1,
                 IF shape.kind = "text" THEN "text frame unreadable"
                 ELSE "shape type not implemented")>>
    ELSE IF shape.kind = "text" THEN <<>>
    ELSE IF shape.kind = "picture"
         THEN <<Issue("Contains an embedded picture", slide_idx + 1, "")>>
         ELSE <<Issue("Contains complex graphics or non-standard shapes", slide_idx + 1, "")>>

(* the notes text tested without strip() *)
HasNotesTextNoStrip(slide) == slide.notes.has

(* lines 288-290 *)
HasNotesText(slide) == slide.notes.has /\ slide.notes.stripped > 0

(* the try block around the shape loop instead of inside it: the first shape
   that raises ends the slide's shape loop *)
SlideIssuesAbort(slide, slide_idx) ==
    LET stop == IF \E k \in 1..Len(slide.shapes) : slide.shapes[k].raises
                THEN CHOOSE k \in 1..Len(slide.shapes) :
                        /\ slide.shapes[k].raises
                        /\ \A m \in 1..(k - 1) : ~slide.shapes[m].raises
                ELSE Len(slide.shapes)
    IN Concat([k \in 1..stop |-> ShapeIssues(slide.shapes[k], slide_idx)])
       \o (IF HasNotesText(slide)
           THEN <<Issue("Contains speaker notes", slide_idx + 1, "")>>
           ELSE <<>>)

(* lines 248-293 for one slide: the issues it appends, in order *)
SlideIssues(slide, slide_idx) ==
    Concat([k \in 1..Len(slide.shapes) |-> ShapeIssues(slide.shapes[k], slide_idx)])
    \o (IF HasNotesText(slide)
        THEN <<Issue("Contains speaker notes", slide_idx + 1, "")>>
        ELSE <<>>)

(* the blank layout used for every slide *)
NewSlideLayoutAlwaysBlank(slide) == "blank"

(* lines 249-255: the layout of the new slide *)
NewSlideLayout(slide) == IF slide.layout = "match" THEN "named" ELSE "blank"

(* lines 248-293 for one slide: the slide added to the report.  textboxes
   counts the textboxes added for text shapes (a text shape that raises has
   left its textbox behind); warning is the length of the notes excerpt in the
   warning textbox, -1 when the slide gets no warning textbox. *)
NewSlide(slide, slide_idx) ==
    [source |-> slide_idx + 1,
     layout |-> NewSlideLayout(slide),
     textboxes |-> Len(SelectSeq(slide.shapes, LAMBDA sh : sh.kind = "text")),
     warning |-> IF HasNotesText(slide)
                 THEN Min(slide.notes.stripped, NotesExcerptLen)
                 ELSE -1]

(* lines 242-300: issues_found before deduplication *)
PptxIssuesRaw(prs) ==
    (IF prs.has_macros THEN <<Msg("VBA Macros")>> ELSE <<>>)
    \o Concat([i \in 1..Len(prs.slides) |-> SlideIssues(prs.slides[i], i - 1)])
    \o (IF prs.has_comments THEN <<Msg("Comments")>> ELSE <<>>)

(* line 303 left out *)
PptxIssuesNoDedup(prs, seed) == PptxIssuesRaw(prs)

(* line 303 *)
PptxIssues(prs, seed) == ListOfSet(PptxIssuesRaw(prs), seed)

(* lines 223-240 and 305-312: the report presentation, summary slide first *)
PptxReport(prs, original_filename, seed) ==
    [filename |-> original_filename,
     summary |-> PptxIssues(prs, seed),
     placeholder |-> (PptxIssues(prs, seed) = <<>>),
     slides |-> [i \in 1..Len(prs.slides) |-> NewSlide(prs.slides[i], i - 1)]]

PptxError == "An unexpected error occurred during PowerPoint processing"

check_powerpoint_google_slides_compatibility(input_file_base64, original_filename, seed) ==
    IF b64decodeRaises(input_file_base64)
    THEN ScanFailed(PptxError, "base64")
    ELSE LET decoded_bytes == b64decode(input_file_base64) IN
         IF decoded_bytes.fmt # "pptx"
         THEN ScanFailed(PptxError, "not a PowerPoint package")
         ELSE LET prs == decoded_bytes.doc
              IN ScanOk("pptx", PptxReport(prs, original_filename, seed), PptxIssues(prs, seed))

---------------------------------------------------------------------------
(* Workbooks as openpyxl exposes them to the scanner *)

(* A cell: its stored type ("n" for a plain value, "f" for a formula) and
   whether it carries a comment. *)
Cells(types, commented) == [data_type : types, comment : commented]

(* iter_rows(): rows 1..max_row, each with columns 1..max_column *)
Grids(cells, maxRows, maxCols) ==
    {<<>>} \cup UNION {[1..r -> [1..c -> cells]] : r \in 1..maxRows, c \in 1..maxCols}

MergedRange(r1, r2, c1, c2) == [min_row |-> r1, max_row |-> r2, min_col |-> c1, max_col |-> c2]

(* the merged ranges that fit a grid and span more than one cell *)
RangesOf(grid) ==
    IF grid = <<>> THEN {}
    ELSE {m \in [min_row : 1..Len(grid), max_row : 1..Len(grid),
                 min_col : 1..Len(grid[1]), max_col : 1..Len(grid[1])] :
            /\ m.min_row <= m.max_row /\ m.min_col <= m.max_col
            /\ (m.min_row < m.max_row \/ m.min_col < m.max_col)}

(* column_dimensions is keyed by column letter, row_dimensions by row number *)
get_column_letter(col) == [letter |-> col]

IntKey(n) == [int |-> n]

(* A sheet.  row_dimensions and column_dimensions are the key sets of the two
   dimension holders; a row may have a dimension without holding a cell. *)
Sheets(cf, dv, grids, maxMerged, rowDims, colDims) ==
    UNION { [conditional_formatting : cf, data_validations : dv, rows : {g},
             merged : SubsetsUpTo(RangesOf(g), maxMerged),
             row_dimensions : rowDims, column_dimensions : colDims] : g \in grids }

Workbooks(sheets, maxSheets, vba) ==
    [vba_archive : vba, sheets : SeqsUpTo(sheets, maxSheets)]

XlsxPackage(wb) == [fmt |-> "xlsx", doc |-> wb]

(* the literal issue texts of lines 380-527 that contain each search string
   of the `any("..." in issue ...)` tests: only the issue of that name does *)
NeedlesIn(text) ==
    IF text \in {"Conditional Formatting", "Data Validation", "Comments", "Formulas",
                 "Merged Cells"}
    THEN {text} ELSE {}

(* the test `if not issues_found` in place of the search for the needle *)
EnsureAnyIssue(issues_found, needle) ==
    IF issues_found # <<>> THEN issues_found ELSE Append(issues_found, Msg(needle))

(* if not any(needle in issue for issue in issues_found): issues_found.append(...) *)
Ensure(issues_found, needle) ==
    IF \E i \in 1..Len(issues_found) : needle \in NeedlesIn(issues_found[i].text)
    THEN issues_found
    ELSE Append(issues_found, Msg(needle))

(* lines 393-409 *)
sheet_specific_warnings(ws) ==
    (IF ws.conditional_formatting THEN <<"Conditional Formatting">> ELSE <<>>)
    \o (IF ws.data_validations THEN <<"Data Validation">> ELSE <<>>)

(* the offset counting the warnings without their header row *)
row_offsetNoHeader(ws) == Len(sheet_specific_warnings(ws))

(* line 430 *)
row_offset(ws) == Len(sheet_specific_warnings(ws)) + 1

(* lines 492-505 for one cell: the features it triggers, in order *)
CellFeatures(cell) ==
    (IF cell.comment THEN <<"Comments">> ELSE <<>>)
    \o (IF cell.data_type = "f" THEN <<"Formulas">> ELSE <<>>)

(* lines 395-527 for one sheet: the `ensure` tests it runs, in order *)
SheetFeatures(ws) ==
    sheet_specific_warnings(ws)
    \o Concat([r \in 1..Len(ws.rows) |->
          Concat([c \in 1..Len(ws.rows[r]) |-> CellFeatures(ws.rows[r][c])])])
    \o [k \in 1..Cardinality(ws.merged) |-> "Merged Cells"]

RECURSIVE EnsureAll(_, _)
EnsureAll(issues_found, needles) ==
    IF needles = <<>> THEN issues_found
    ELSE EnsureAll(Ensure(issues_found, Head(needles)), Tail(needles))

(* the two advisories appended inside the sheet loop's first pass *)
XlsxIssuesRawAdvisoriesInLoop(wb) ==
    EnsureAll(
        (IF wb.vba_archive THEN <<Msg("VBA Macros")>> ELSE <<>>)
        \o (IF wb.sheets # <<>>
            THEN <<Msg("Charts/Complex Graphics"), Msg("Embedded Images/Shapes")>>
            ELSE <<>>),
        Concat([i \in 1..Len(wb.sheets) |-> SheetFeatures(wb.sheets[i])]))

(* the workbook loaded without keep_vba: vba_archive is always None *)
XlsxIssuesRawNoVba(wb) ==
    EnsureAll(
        <<Msg("Charts/Complex Graphics"), Msg("Embedded Images/Shapes")>>,
        Concat([i \in 1..Len(wb.sheets) |-> SheetFeatures(wb.sheets[i])]))

(* the two advisories of lines 382-386 left out *)
XlsxIssuesRawNoAdvisories(wb) ==
    EnsureAll(
        (IF wb.vba_archive THEN <<Msg("VBA Macros")>> ELSE <<>>),
        Concat([i \in 1..Len(wb.sheets) |-> SheetFeatures(wb.sheets[i])]))

(* lines 377-527: issues_found when the summary is written *)
XlsxIssuesRaw(wb) ==
    EnsureAll(
        (IF wb.vba_archive THEN <<Msg("VBA Macros")>> ELSE <<>>)
        \o <<Msg("Charts/Complex Graphics"), Msg("Embedded Images/Shapes")>>,
        Concat([i \in 1..Len(wb.sheets) |-> SheetFeatures(wb.sheets[i])]))

(* lines 534-535 *)
XlsxIssues(wb, seed) ==
    IF XlsxIssuesRaw(wb) # <<>> THEN ListOfSet(XlsxIssuesRaw(wb), seed) ELSE <<>>

(* lines 411-428: the rows inserted at the top of the report sheet *)
WarningRows(ws) ==
    IF sheet_specific_warnings(ws) # <<>>
    THEN 1..(Len(sheet_specific_warnings(ws)) + 1)
    ELSE {}

(* lines 433-444 and 492-505: the cells written to the report sheet *)
CopiedCells(ws) ==
    {[row |-> r + row_offset(ws), col |-> c, from_row |-> r, from_col |-> c,
      fill |-> (ws.rows[r][c].comment \/ ws.rows[r][c].data_type = "f"),
      comment |-> ws.rows[r][c].comment] :
        r \in 1..Len(ws.rows), c \in 1..(IF ws.rows = <<>> THEN 0 ELSE Len(ws.rows[1]))}

(* the row height assigned at the source row index *)
CopiedHeightsUnshifted(ws) ==
    {[row |-> r, from_row |-> r] :
        r \in {q \in 1..Len(ws.rows) : q \in ws.row_dimensions}}

(* lines 436-438 *)
CopiedHeights(ws) ==
    {[row |-> r + row_offset(ws), from_row |-> r] :
        r \in {q \in 1..Len(ws.rows) : q \in ws.row_dimensions}}

(* lines 487-490: the membership test uses the column number *)
CopiedWidths(ws) ==
    {[col |-> c, from_col |-> c] :
        c \in {q \in 1..(IF ws.rows = <<>> THEN 0 ELSE Len(ws.rows[1])) :
                 IntKey(q) \in ws.column_dimensions}}

(* lines 507-523 *)
TranslatedMerges(ws) ==
    {[range |-> MergedRange(m.min_row + row_offset(ws), m.max_row + row_offset(ws),
                            m.min_col, m.max_col),
      from |-> m,
      fill_row |-> m.min_row + row_offset(ws), fill_col |-> m.min_col] : m \in ws.merged}

ReportSheet(ws) ==
    [warning_rows |-> WarningRows(ws),
     warnings |-> sheet_specific_warnings(ws),
     cells |-> CopiedCells(ws),
     heights |-> CopiedHeights(ws),
     widths |-> CopiedWidths(ws),
     merges |-> TranslatedMerges(ws)]

(* lines 359-375 and 529-544: the report workbook, summary sheet first *)
XlsxReport(wb, original_filename, seed) ==
    [filename |-> original_filename,
     summary |-> XlsxIssues(wb, seed),
     placeholder |-> (XlsxIssuesRaw(wb) = <<>>),
     sheets |-> [i \in 1..Len(wb.sheets) |-> ReportSheet(wb.sheets[i])]]

XlsxError == "An unexpected error occurred during Excel processing"

check_excel_google_sheets_compatibility(input_file_base64, original_filename, seed) ==
    IF b64decodeRaises(input_file_base64)
    THEN ScanFailed(XlsxError, "base64")
    ELSE LET decoded_bytes == b64decode(input_file_base64) IN
         IF decoded_bytes.fmt # "xlsx"
         THEN ScanFailed(XlsxError, "not an Excel package")
         ELSE LET original_wb == decoded_bytes.doc
              IN ScanOk("xlsx", XlsxReport(original_wb, original_filename, seed),
                        XlsxIssues(original_wb, seed))

---------------------------------------------------------------------------
(* The HTTP layer *)

DefaultFilename == [given |-> FALSE]

SupportedTypes == {"docx", "pptx", "xlsx", "xlsm"}

NoResult == [ok |-> FALSE, out |-> NoOutput, issues |-> <<>>]

NoResponse == [status |-> 0, keys |-> {}, success |-> FALSE, error |-> Msg(""),
               output_file_base64 |-> NoOutput, issues_found |-> <<>>]

NotRepeated == [done |-> FALSE, ok |-> FALSE, issues |-> <<>>]

(* xlsm left out of the dispatch *)
RouteBranchNoXlsm(req) ==
    IF ~req.json THEN "exception"
    ELSE IF ~Truthy(req.file_base64) THEN "nodata"
    ELSE IF req.file_type = "docx" THEN "check_word_google_docs_compatibility"
    ELSE IF req.file_type = "pptx" THEN "check_powerpoint_google_slides_compatibility"
    ELSE IF req.file_type = "xlsx" THEN "check_excel_google_sheets_compatibility"
    ELSE "unsupported"

(* the type dispatch ahead of the missing-data test *)
RouteBranchTypeFirst(req) ==
    IF ~req.json THEN "exception"
    ELSE IF req.file_type = "docx" THEN "check_word_google_docs_compatibility"
    ELSE IF req.file_type = "pptx" THEN "check_powerpoint_google_slides_compatibility"
    ELSE IF req.file_type = "xlsx" \/ req.file_type = "xlsm"
         THEN "check_excel_google_sheets_compatibility"
    ELSE IF ~Truthy(req.file_base64) THEN "nodata"
    ELSE "unsupported"

(* lines 578-595: the branch the handler takes, tested in this order.  A body
   that is not a JSON object makes data.get raise, which line 610 catches. *)
RouteBranch(req) ==
    IF ~req.json THEN "exception"
    ELSE IF ~Truthy(req.file_base64) THEN "nodata"
    ELSE IF req.file_type = "docx" THEN "check_word_google_docs_compatibility"
    ELSE IF req.file_type = "pptx" THEN "check_powerpoint_google_slides_compatibility"
    ELSE IF req.file_type = "xlsx" \/ req.file_type = "xlsm"
         THEN "check_excel_google_sheets_compatibility"
    ELSE "unsupported"

Scanners == {"check_word_google_docs_compatibility",
             "check_powerpoint_google_slides_compatibility",
             "check_excel_google_sheets_compatibility"}

(* lines 589-593: the scanner call of the branch taken *)
RouteScan(req, seed) ==
    LET branch == RouteBranch(req) IN
    IF branch = "check_word_google_docs_compatibility"
    THEN check_word_google_docs_compatibility(req.file_base64, req.filename)
    ELSE IF branch = "check_powerpoint_google_slides_compatibility"
    THEN check_powerpoint_google_slides_compatibility(req.file_base64, req.filename, seed)
    ELSE IF branch = "check_excel_google_sheets_compatibility"
    THEN check_excel_google_sheets_compatibility(req.file_base64, req.filename, seed)
    ELSE NoResult

Failure(status, error) ==
    [status |-> status, keys |-> {"success", "error"}, success |-> FALSE, error |-> error,
     output_file_base64 |-> NoOutput, issues_found |-> <<>>]

(* lines 584-613: the JSON body and the status code *)
RouteResponse(req, scan) ==
    LET branch == RouteBranch(req) IN
    IF branch = "exception" THEN Failure(500, Msg("request body is not a JSON object"))
    ELSE IF branch = "nodata" THEN Failure(400, Msg("No file data provided."))
    ELSE IF branch = "unsupported" THEN Failure(400, Msg("Unsupported file type provided."))
    ELSE IF scan.ok
         THEN [status |-> 200, keys |-> {"success", "output_file_base64", "issues_found"},
               success |-> TRUE, error |-> Msg(""),
               output_file_base64 |-> scan.out, issues_found |-> scan.issues]
         ELSE Failure(500, IF scan.issues # <<>> THEN scan.issues[1]
                           ELSE Msg("Unknown error during processing."))

(* POST /check-compatibility, lines 572-613 *)
check_compatibility_route ==
    /\ pc = "received"
    /\ request.op = "check-compatibility"
    /\ \E seed \in HashSeeds :
          /\ result' = RouteScan(request, seed)
          /\ response' = RouteResponse(request, RouteScan(request, seed))
    /\ invoked' = IF RouteBranch(request) \in Scanners THEN <<RouteBranch(request)>> ELSE <<>>
    /\ pc' = "responded"
    /\ UNCHANGED <<request, first>>

(* GET /, lines 565-568 *)
home ==
    /\ pc = "received"
    /\ request.op = "home"
    /\ response' = [NoResponse EXCEPT !.status = 200, !.keys = {"text"}]
    /\ pc' = "responded"
    /\ UNCHANGED <<request, invoked, result, first>>

(* The client sends the byte-identical request a second time (the server may
   have been restarted in between: the hash seed is drawn anew). *)
Repeat ==
    /\ pc = "responded"
    /\ ~first.done
    /\ invoked # <<>>
    /\ first' = [done |-> TRUE, ok |-> result.ok, issues |-> result.issues]
    /\ pc' = "received"
    /\ invoked' = <<>>
    /\ result' = NoResult
    /\ response' = NoResponse
    /\ UNCHANGED request

Next == check_compatibility_route \/ home \/ Repeat

---------------------------------------------------------------------------
(* Requests *)

Filenames == {DefaultFilename, [given |-> TRUE]}

JunkPackage == [fmt |-> "junk"]

Post(file_base64, file_type, filename) ==
    [op |-> "check-compatibility", json |-> TRUE, file_base64 |-> file_base64,
     file_type |-> file_type, filename |-> filename]

NotJson == [Post(AbsentPayload, "none", DefaultFilename) EXCEPT !.json = FALSE]

GetHome == [Post(AbsentPayload, "none", DefaultFilename) EXCEPT !.op = "home", !.json = FALSE]

(* the documents of the general specification *)
GeneralWordDocs == WordDocs(MaxBlocks, 1)

GeneralPresentations ==
    Presentations(
        Slides({"match"}, Shapes({"text", "picture", "other"}, {FALSE}), MaxShapes,
               Notes({5})),
        1, BOOLEAN, BOOLEAN)

(* one-cell sheets of every cell kind, and two-cell sheets of plain values
   with and without a merged range *)
GeneralSheets ==
    Sheets(BOOLEAN, BOOLEAN,
           Grids(Cells({"n", "f"}, {FALSE}) \cup Cells({"n"}, {TRUE}), 1, 1) \ {<<>>},
           0, {{}}, {{}})
    \cup Sheets(BOOLEAN, BOOLEAN, {<< <<[data_type |-> "n", comment |-> FALSE],
                                        [data_type |-> "n", comment |-> FALSE]>> >>},
                1, {{}}, {{}})

GeneralWorkbooks == Workbooks(GeneralSheets, MaxSheets, BOOLEAN)

(* one payload of each kind, for the requests whose declared type does not
   match the bytes: the loaders reject them whatever the document holds *)
SamplePayloads ==
    {AbsentPayload, EmptyPayload, MalformedPayload, b64encode(JunkPackage),
     b64encode(WordPackage([has_macros |-> TRUE, comments |-> <<>>, blocks |-> <<>>])),
     b64encode(PptxPackage([has_macros |-> TRUE, has_comments |-> FALSE, slides |-> <<>>])),
     b64encode(XlsxPackage([vba_archive |-> TRUE, sheets |-> <<>>]))}

Requests ==
    {GetHome, NotJson}
    \cup {Post(p, t, f) : p \in SamplePayloads, t \in SupportedTypes \cup {"txt", "none"},
                          f \in Filenames}
    \cup {Post(b64encode(WordPackage(d)), "docx", DefaultFilename) : d \in GeneralWordDocs}
    \cup {Post(b64encode(PptxPackage(d)), "pptx", DefaultFilename) : d \in GeneralPresentations}
    \cup {Post(b64encode(XlsxPackage(d)), t, DefaultFilename) :
            d \in GeneralWorkbooks, t \in {"xlsx", "xlsm"}}

Start(requests) ==
    /\ request \in requests
    /\ pc = "received"
    /\ invoked = <<>>
    /\ result = NoResult
    /\ response = NoResponse
    /\ first = NotRepeated

Init == Start(Requests)

Spec == Init /\ [][Next]_vars

(* Presentations of several slides whose shapes may raise while copied *)
SlideRequests ==
    {Post(b64encode(PptxPackage(d)), "pptx", DefaultFilename) :
        d \in Presentations(
                 Slides({"match"}, Shapes({"text", "picture"}, BOOLEAN), 2,
                        Notes({})),
                 MaxSlides, {FALSE}, {FALSE})}

InitSlides == Start(SlideRequests)

SpecSlides == InitSlides /\ [][check_compatibility_route]_vars

(* One-sheet workbooks of plain cells with every grid shape, merged range,
   row-dimension set and warning count *)
SheetRequests ==
    {Post(b64encode(XlsxPackage(d)), "xlsx", DefaultFilename) :
        d \in Workbooks(
                 Sheets(BOOLEAN, BOOLEAN, Grids(Cells({"n"}, {FALSE}), MaxRows, MaxCols), 1,
                        SUBSET (1..(MaxRows + 1)),
                        {{}, {get_column_letter(c) : c \in 1..MaxCols}}),
                 1, {FALSE})
             \ {[vba_archive |-> FALSE, sheets |-> <<>>]}}

InitSheet == Start(SheetRequests)

SpecSheet == InitSheet /\ [][check_compatibility_route]_vars

(* Presentations of several slides with every layout outcome and notes that
   are absent, blank, short, exactly the excerpt length, and longer *)
DeckRequests ==
    {Post(b64encode(PptxPackage(d)), "pptx", DefaultFilename) :
        d \in Presentations(
                 Slides({"match", "nomatch", "raises"}, Shapes({"picture"}, {FALSE}), 0,
                        Notes({0, 5, NotesExcerptLen, NotesExcerptLen + 50})),
                 MaxSlides, {FALSE}, {FALSE})}

InitDeck == Start(DeckRequests)

SpecDeck == InitDeck /\ [][check_compatibility_route]_vars

(* Workbooks of several sheets, each sheet plain or exhibiting some of the
   five features the scanner detects from content *)
PlainCell == [data_type |-> "n", comment |-> FALSE]

FeatureSheets ==
    Sheets(BOOLEAN, BOOLEAN, {<< <<PlainCell>> >>}, 0, {{}}, {{}})
    \cup Sheets({FALSE}, {FALSE},
                Grids(Cells({"n", "f"}, BOOLEAN), 1, 1) \ {<<>>, << <<PlainCell>> >>},
                0, {{}}, {{}})
    \cup (Sheets({FALSE}, {FALSE}, {<< <<PlainCell, PlainCell>> >>}, 1, {{}}, {{}})
          \ Sheets({FALSE}, {FALSE}, {<< <<PlainCell, PlainCell>> >>}, 0, {{}}, {{}}))
    \cup {[conditional_formatting |-> TRUE, data_validations |-> TRUE,
           rows |-> << <<[data_type |-> "f", comment |-> TRUE], PlainCell>> >>,
           merged |-> {MergedRange(1, 1, 1, 2)},
           row_dimensions |-> {}, column_dimensions |-> {}]}

FeatureRequests ==
    {Post(b64encode(XlsxPackage(d)), "xlsx", DefaultFilename) :
        d \in Workbooks(FeatureSheets, MaxFeatureSheets, BOOLEAN)}

InitFeatures == Start(FeatureRequests)

SpecFeatures == InitFeatures /\ [][check_compatibility_route]_vars

(* Documents whose paragraphs have several runs that reference comments 1 and
   2, with a comments part that holds both, one, or neither of them *)
ReferencingParagraphs ==
    [type : {"p"}, runs : SeqsUpTo([ref : 0..2, rev : {FALSE}], MaxParaRuns)]

ParagraphRequests ==
    {Post(b64encode(WordPackage(d)), "docx", DefaultFilename) :
        d \in [has_macros : {FALSE},
               comments : {s \in SeqsUpTo({1, 2}, 2) : NoDuplicates(s)},
               blocks : SeqsUpTo(ReferencingParagraphs \cup TableBlocks, 2)]}

InitParagraph == Start(ParagraphRequests)

SpecParagraph == InitParagraph /\ [][check_compatibility_route]_vars

---------------------------------------------------------------------------
(* Properties *)

Responded == pc = "responded" /\ request.op = "check-compatibility"

(* the scanner that ran, when exactly one ran *)
Ran(scanner) == Responded /\ invoked = <<scanner>>

(* a scanner ran on bytes that are a package of its own format *)
RanOnOwnFormat ==
    \/ Ran("check_word_google_docs_compatibility") /\ request.file_base64.bytes.fmt = "docx"
    \/ Ran("check_powerpoint_google_slides_compatibility")
         /\ request.file_base64.bytes.fmt = "pptx"
    \/ Ran("check_excel_google_sheets_compatibility") /\ request.file_base64.bytes.fmt = "xlsx"

SourceDoc == request.file_base64.bytes.doc

ReportDoc == result.out.bytes.doc

Count(s, x) == Cardinality({i \in 1..Len(s) : s[i] = x})

(* C1: a request that carries file data makes the handler call exactly one
   scanner, the one of the declared type (docx: Word, pptx: PowerPoint, xlsx
   and xlsm: Excel); any other declared type gets a failure response with the
   unsupported-file-type error and no scanner is called. *)
C1_DispatchByDeclaredType ==
    (Responded /\ request.json /\ Truthy(request.file_base64)) =>
        /\ request.file_type = "docx" => invoked = <<"check_word_google_docs_compatibility">>
        /\ request.file_type = "pptx" =>
              invoked = <<"check_powerpoint_google_slides_compatibility">>
        /\ request.file_type \in {"xlsx", "xlsm"} =>
              invoked = <<"check_excel_google_sheets_compatibility">>
        /\ request.file_type \notin SupportedTypes =>
              /\ invoked = <<>>
              /\ ~response.success
              /\ response.keys = {"success", "error"}
              /\ response.error = Msg("Unsupported file type provided.")

C1_Witness ==
    /\ Responded /\ Truthy(request.file_base64)
    /\ request.file_type = "xlsm" /\ request.file_base64.bytes.fmt = "docx"
    /\ invoked = <<"check_excel_google_sheets_compatibility">>

(* C2: a scanner given a valid document of its own format always returns
   ok:true with output document bytes. *)
C2_ValidDocumentScans ==
    RanOnOwnFormat => (result.ok /\ result.out.enc = "base64")

(* C3: a failed scan gives the caller success:false with exactly one error
   string, the scanner's own message, and neither an output document nor an
   issue list; the scanner itself returns no output and only that message. *)
C3_FailureEnvelope ==
    (Responded /\ invoked # <<>> /\ ~result.ok) =>
        /\ result.out = NoOutput
        /\ Len(result.issues) = 1
        /\ result.issues[1].text \in {WordError, PptxError, XlsxError}
        /\ ~response.success
        /\ response.keys = {"success", "error"}
        /\ response.error = result.issues[1]
        /\ response.output_file_base64 = NoOutput
        /\ response.issues_found = <<>>

(* the failure is an exception raised in the middle of the walk, after part
   of the report was built *)
C3_Witness ==
    /\ Ran("check_word_google_docs_compatibility")
    /\ ~result.ok
    /\ result.issues[1].cause = "list index out of range"
    /\ response.status = 500

(* C4: the issue list of a successful scan holds no two equal entries. *)
C4_NoDuplicateIssues ==
    (Responded /\ invoked # <<>> /\ result.ok) => NoDuplicates(result.issues)

(* two pictures on one slide: the same string is appended twice *)
C4_Witness ==
    /\ Ran("check_powerpoint_google_slides_compatibility") /\ result.ok
    /\ Count(PptxIssuesRaw(SourceDoc), Issue("Contains an embedded picture", 1, "")) = 2
    /\ Count(result.issues, Issue("Contains an embedded picture", 1, "")) = 1

HasMacroPayload ==
    IF request.file_base64.bytes.fmt = "xlsx" THEN SourceDoc.vba_archive
    ELSE SourceDoc.has_macros

(* C5: the issue list of a successful scan holds the Macros issue exactly when
   the source document carries a macro payload. *)
C5_MacrosIffPayload ==
    (Responded /\ invoked # <<>> /\ result.ok) =>
        (Msg("VBA Macros") \in Range(result.issues) <=> HasMacroPayload)

C5_Witness ==
    /\ Ran("check_excel_google_sheets_compatibility") /\ result.ok
    /\ HasMacroPayload
    /\ Msg("Merged Cells") \in Range(result.issues)
    /\ Msg("Conditional Formatting") \in Range(result.issues)
    /\ Msg("VBA Macros") \in Range(result.issues)

(* C6: a successful spreadsheet scan lists the Charts/Graphics advisory and
   the Embedded-Images/Shapes advisory, each exactly once. *)
C6_TwoAdvisories ==
    (Ran("check_excel_google_sheets_compatibility") /\ result.ok) =>
        /\ Count(result.issues, Msg("Charts/Complex Graphics")) = 1
        /\ Count(result.issues, Msg("Embedded Images/Shapes")) = 1

(* a workbook with no sheet and no macros *)
C6_Witness ==
    /\ Ran("check_excel_google_sheets_compatibility") /\ result.ok
    /\ SourceDoc.sheets = <<>>
    /\ ~SourceDoc.vba_archive
    /\ Len(result.issues) = 2

(* every cell, row height and merged range of source sheet ws is in report
   sheet rs, k rows further down and in the same columns *)
ShiftedBy(ws, rs, k) ==
    /\ \A r \in 1..Len(ws.rows) : \A c \in 1..Len(ws.rows[r]) :
          \E x \in rs.cells : x.from_row = r /\ x.from_col = c
    /\ \A x \in rs.cells : x.row = x.from_row + k /\ x.col = x.from_col
    /\ \A r \in 1..Len(ws.rows) :
          r \in ws.row_dimensions => \E h \in rs.heights : h.from_row = r
    /\ \A h \in rs.heights : h.row = h.from_row + k
    /\ \A m \in ws.merged : \E t \in rs.merges : t.from = m
    /\ \A t \in rs.merges :
          t.range = MergedRange(t.from.min_row + k, t.from.max_row + k,
                                t.from.min_col, t.from.max_col)

(* C7: for every source sheet there is one row offset k such that source row
   r is written to report row r+k, the height of source row r is assigned to
   report row r+k and a merged range [r1,r2]x[c1,c2] becomes
   [r1+k,r2+k]x[c1,c2]; columns are never shifted. *)
C7_OneRowOffset ==
    (Ran("check_excel_google_sheets_compatibility") /\ result.ok) =>
        \A i \in 1..Len(SourceDoc.sheets) :
            \E k \in 0..3 : ShiftedBy(SourceDoc.sheets[i], ReportDoc.sheets[i], k)

(* a sheet with two warnings, cells, a row height and a merged range *)
C7_Witness ==
    /\ Ran("check_excel_google_sheets_compatibility") /\ result.ok
    /\ Len(SourceDoc.sheets) = 1
    /\ Len(ReportDoc.sheets[1].warnings) = 2
    /\ \E h \in ReportDoc.sheets[1].heights : h.from_row = 2 /\ h.row = 5
    /\ \E t \in ReportDoc.sheets[1].merges : t.from.min_row = 1 /\ t.range.min_row = 4
    /\ \E x \in ReportDoc.sheets[1].cells : x.from_row = 2 /\ x.row = 5

C9_NoDataNoScanner ==
    (request.op = "check-compatibility" /\ ~Truthy(request.file_base64)) =>
        /\ invoked = <<>>
        /\ pc = "responded" =>
              /\ ~response.success
              /\ response.keys = {"success", "error"}
              /\ response.status \in {400, 500}
              /\ request.json => response.error = Msg("No file data provided.")

C9_Witness ==
    /\ Responded /\ request.json
    /\ request.file_base64 = EmptyPayload
    /\ request.file_type = "docx"
    /\ response.status = 400

(* C10: a shape whose copy raises adds a warning issue for its slide and
   nothing else: the scan ends ok:true, every slide is copied, and every other
   shape, on the same slide after it and on later slides, is still processed
   (its textbox copied, its issue listed). *)
C10_ShapeErrorIsLocal ==
    (Ran("check_powerpoint_google_slides_compatibility")
        /\ request.file_base64.bytes.fmt = "pptx") =>
        /\ result.ok
        /\ Len(ReportDoc.slides) = Len(SourceDoc.slides)
        /\ \A i \in 1..Len(SourceDoc.slides) :
              /\ ReportDoc.slides[i].textboxes >=
                    Cardinality({k \in 1..Len(SourceDoc.slides[i].shapes) :
                                    /\ SourceDoc.slides[i].shapes[k].kind = "text"
                                    /\ ~SourceDoc.slides[i].shapes[k].raises})
              /\ \A k \in 1..Len(SourceDoc.slides[i].shapes) :
                    LET shape == SourceDoc.slides[i].shapes[k] IN
                    /\ shape.raises =>
                          \E x \in Range(result.issues) :
                              /\ x.slide = i
                              /\ x.text = "Could not fully copy a shape due to an internal error"
                    /\ (~shape.raises /\ shape.kind = "picture") =>
                          Issue("Contains an embedded picture", i, "") \in Range(result.issues)

(* slide 1: a shape that raises, then a picture; slide 2: a picture *)
C10_Witness ==
    /\ Ran("check_powerpoint_google_slides_compatibility") /\ result.ok
    /\ Len(SourceDoc.slides) = 2
    /\ Len(SourceDoc.slides[1].shapes) = 2
    /\ SourceDoc.slides[1].shapes[1].raises
    /\ SourceDoc.slides[1].shapes[2] = [kind |-> "picture", raises |-> FALSE]
    /\ SourceDoc.slides[2].shapes = <<[kind |-> "picture", raises |-> FALSE]>>
    /\ Issue("Contains an embedded picture", 1, "") \in Range(result.issues)
    /\ Issue("Contains an embedded picture", 2, "") \in Range(result.issues)

RanOnDeck ==
    /\ Ran("check_powerpoint_google_slides_compatibility")
    /\ request.file_base64.bytes.fmt = "pptx"

(* C11: every source slide gets exactly one slide of the report, in source
   order after the summary; it has the template layout of the same name when
   there is one, and the blank layout when there is none or when choosing or
   assigning the layout raises; the scan is ok:true whatever the layouts. *)
C11_OneSlidePerSlide ==
    RanOnDeck =>
        /\ result.ok
        /\ Len(ReportDoc.slides) = Len(SourceDoc.slides)
        /\ \A i \in 1..Len(SourceDoc.slides) :
              /\ ReportDoc.slides[i].source = i
              /\ SourceDoc.slides[i].layout = "match" => ReportDoc.slides[i].layout = "named"
              /\ SourceDoc.slides[i].layout \in {"nomatch", "raises"} =>
                    ReportDoc.slides[i].layout = "blank"

(* a layout that raises on slide 1, a matching layout on slide 2 *)
C11_Witness ==
    /\ RanOnDeck /\ result.ok
    /\ Len(SourceDoc.slides) = 2
    /\ SourceDoc.slides[1].layout = "raises"
    /\ SourceDoc.slides[2].layout = "match"
    /\ ReportDoc.slides[1].layout = "blank"
    /\ ReportDoc.slides[2].layout = "named"

(* C12: slide i gets a speaker-notes issue tagged i and a warning textbox on
   report slide i exactly when its notes are non-empty once stripped; the
   textbox excerpt is the first 100 characters of the stripped notes at most. *)
C12_NotesWarning ==
    (RanOnDeck /\ result.ok) =>
        \A i \in 1..Len(SourceDoc.slides) :
            LET notes == SourceDoc.slides[i].notes
                noted == notes.has /\ notes.stripped > 0
            IN /\ Issue("Contains speaker notes", i, "") \in Range(result.issues) <=> noted
               /\ ReportDoc.slides[i].source = i
               /\ ReportDoc.slides[i].warning >= 0 <=> noted
               /\ ReportDoc.slides[i].warning <= 100
               /\ noted => ReportDoc.slides[i].warning = Min(notes.stripped, 100)

(* slide 1 has blank notes, slide 2 has notes longer than the excerpt *)
C12_Witness ==
    /\ RanOnDeck /\ result.ok
    /\ Len(SourceDoc.slides) = 2
    /\ SourceDoc.slides[1].notes = [has |-> TRUE, stripped |-> 0]
    /\ SourceDoc.slides[2].notes.stripped = 150
    /\ ReportDoc.slides[1].warning = -1
    /\ ReportDoc.slides[2].warning = 100
    /\ Range(result.issues) = {Issue("Contains speaker notes", 2, "")}

RanOnWorkbook ==
    /\ Ran("check_excel_google_sheets_compatibility")
    /\ request.file_base64.bytes.fmt = "xlsx"

(* whether some sheet, cell or merged range of the workbook shows a feature *)
Exhibits(wb, feature) ==
    \E i \in 1..Len(wb.sheets) :
        LET ws == wb.sheets[i] IN
        CASE feature = "Conditional Formatting" -> ws.conditional_formatting
          [] feature = "Data Validation" -> ws.data_validations
          [] feature = "Comments" ->
                \E r \in 1..Len(ws.rows) : \E c \in 1..Len(ws.rows[r]) : ws.rows[r][c].comment
          [] feature = "Formulas" ->
                \E r \in 1..Len(ws.rows) : \E c \in 1..Len(ws.rows[r]) :
                    ws.rows[r][c].data_type = "f"
          [] feature = "Merged Cells" -> ws.merged # {}

(* C13: each of the five features detected from content has exactly one
   global issue in the final list when some sheet, cell or range shows it and
   none otherwise, whatever other issues the list holds and however many
   sheets show it. *)
C13_OneIssuePerFeature ==
    (RanOnWorkbook /\ result.ok) =>
        \A feature \in {"Conditional Formatting", "Data Validation", "Comments", "Formulas",
                        "Merged Cells"} :
            Count(result.issues, Msg(feature)) = (IF Exhibits(SourceDoc, feature) THEN 1 ELSE 0)

(* macros, and two sheets that both have formulas and comments; the second
   also has a merged range *)
C13_Witness ==
    /\ RanOnWorkbook /\ result.ok
    /\ SourceDoc.vba_archive
    /\ Len(SourceDoc.sheets) = 2
    /\ \A i \in 1..2 : SourceDoc.sheets[i].rows[1][1] = [data_type |-> "f", comment |-> TRUE]
    /\ SourceDoc.sheets[1].merged = {}
    /\ SourceDoc.sheets[2].merged # {}
    /\ Count(result.issues, Msg("Formulas")) = 1
    /\ Count(result.issues, Msg("Comments")) = 1
    /\ Count(result.issues, Msg("Merged Cells")) = 1
    /\ Count(result.issues, Msg("VBA Macros")) = 1

(* C14: the shift applied to a sheet's copied cells equals the number of
   warning rows inserted at the top of its report sheet: one more than the
   number of warnings when there is a warning, and no shift when there is
   none. *)
C14_OffsetIsRowsInserted ==
    (Ran("check_excel_google_sheets_compatibility") /\ result.ok) =>
        \A i \in 1..Len(SourceDoc.sheets) :
            \A x \in ReportDoc.sheets[i].cells :
                x.row - x.from_row = Cardinality(ReportDoc.sheets[i].warning_rows)

(* C15: every row height and every column width the source sheet defines is
   copied, the height of row r to report row r+offset and the width of column
   c to report column c, whether or not the row or column holds a cell. *)
C15_AllDimensionsCopied ==
    (Ran("check_excel_google_sheets_compatibility") /\ result.ok) =>
        \A i \in 1..Len(SourceDoc.sheets) :
            LET ws == SourceDoc.sheets[i]
                rs == ReportDoc.sheets[i]
            IN /\ \A r \in ws.row_dimensions :
                     \E h \in rs.heights : h.from_row = r /\ h.row = r + row_offset(ws)
               /\ \A c \in 1..MaxCols :
                     get_column_letter(c) \in ws.column_dimensions =>
                         \E w \in rs.widths : w.from_col = c /\ w.col = c

RanOnDocument ==
    /\ Ran("check_word_google_docs_compatibility")
    /\ request.file_base64.bytes.fmt = "docx"

(* the runs of a paragraph that reference a comment of the comments part *)
ReferencingRuns(doc, p) ==
    {j \in 1..Len(p.runs) : \E k \in 1..Len(doc.comments) : doc.comments[k] = p.runs[j].ref}

(* C16: the copy of each source paragraph, in document order, holds at most
   one re-created comment however many of its runs reference comments;
   exactly one, that of the first referencing run, when some run references a
   known comment, with the background put on the paragraph; and neither
   background nor comment when no run references a known comment. *)
C16_OneCommentPerParagraph ==
    (RanOnDocument /\ result.ok) =>
        LET src == paragraphs(SourceDoc)
            out == SelectSeq(ReportDoc.body, LAMBDA b : b.type = "p")
        IN /\ Len(out) = Len(src)
           /\ \A i \in 1..Len(src) :
                 LET refs == ReferencingRuns(SourceDoc, src[i]) IN
                 /\ Len(out[i].comments) <= 1
                 /\ refs # {} =>
                       /\ out[i].comments =
                             << src[i].runs[CHOOSE j \in refs : \A m \in refs : j <= m].ref >>
                       /\ out[i].shd > 0
                 /\ refs = {} => out[i].comments = <<>> /\ out[i].shd = 0

(* a paragraph whose two runs reference two different known comments, then
   a paragraph with no reference *)
C16_Witness ==
    /\ RanOnDocument /\ result.ok
    /\ SourceDoc.comments = <<1, 2>>
    /\ Len(SourceDoc.blocks) = 2
    /\ SourceDoc.blocks[1].type = "p" /\ SourceDoc.blocks[2].type = "p"
    /\ Len(SourceDoc.blocks[1].runs) = 2
    /\ SourceDoc.blocks[1].runs[1].ref = 2 /\ SourceDoc.blocks[1].runs[2].ref = 1
    /\ Len(SourceDoc.blocks[2].runs) = 1 /\ SourceDoc.blocks[2].runs[1].ref = 0
    /\ ReportDoc.body[1].comments = <<2>> /\ ReportDoc.body[1].shd = 2
    /\ ReportDoc.body[2].comments = <<>> /\ ReportDoc.body[2].shd = 0

(* C17: when the spreadsheet summary is written the issue list is never empty,
   since it holds the two advisories; the placeholder line is never written
   and the summary is the deduplicated list. *)
C17_SummaryNeverEmpty ==
    (Ran("check_excel_google_sheets_compatibility") /\ result.ok) =>
        /\ ~ReportDoc.placeholder
        /\ {Msg("Charts/Complex Graphics"), Msg("Embedded Images/Shapes")}
              \subseteq Range(ReportDoc.summary)
        /\ NoDuplicates(ReportDoc.summary)
        /\ ReportDoc.summary = result.issues

(* a workbook with no macros whose one sheet shows none of the features *)
C17_Witness ==
    /\ Ran("check_excel_google_sheets_compatibility") /\ result.ok
    /\ ~SourceDoc.vba_archive
    /\ Len(SourceDoc.sheets) = 1
    /\ \A feature \in {"Conditional Formatting", "Data Validation", "Comments", "Formulas",
                       "Merged Cells"} : ~Exhibits(SourceDoc, feature)
    /\ ~ReportDoc.placeholder
    /\ Len(ReportDoc.summary) = 2

(* C18: on every report sheet the warning rows, the header and one row per
   warning at rows 1..warnings+1, hold no copied cell, no highlight and no
   part of a translated merged range. *)
C18_WarningRowsDisjoint ==
    (Ran("check_excel_google_sheets_compatibility") /\ result.ok) =>
        \A i \in 1..Len(SourceDoc.sheets) :
            LET rs == ReportDoc.sheets[i]
                n == Len(rs.warnings)
            IN /\ rs.warning_rows = (IF n > 0 THEN 1..(n + 1) ELSE {})
               /\ \A x \in rs.cells : x.row \notin rs.warning_rows
               /\ \A t \in rs.merges :
                     /\ (t.range.min_row..t.range.max_row) \cap rs.warning_rows = {}
                     /\ t.fill_row \notin rs.warning_rows

(* one warning: the cell of source row 1 is written just below the two
   warning rows, and a merged range starting at row 1 starts there too *)
C18_Witness ==
    /\ Ran("check_excel_google_sheets_compatibility") /\ result.ok
    /\ Len(SourceDoc.sheets) = 1
    /\ ReportDoc.sheets[1].warning_rows = {1, 2}
    /\ \E x \in ReportDoc.sheets[1].cells : x.from_row = 1 /\ x.row = 3
    /\ \E t \in ReportDoc.sheets[1].merges : t.from.min_row = 1 /\ t.range.min_row = 3

====
